---- MODULE Spec2Model ----
(***************************************************************************)
(* Hulubedeje hospital-management API (src/main.py, src/schemas.py).       *)
(*                                                                         *)
(* The HTTP handlers of main.py over a document store.  Each handler is    *)
(* one action; POST /auth/signup is two, because it makes two separate     *)
(* store calls (the existence query and the insert) and other requests may *)
(* run between them.  Names of collections, class names and e-mail         *)
(* addresses are sequences of one-character strings, so that lower-casing  *)
(* and format checks are computed and not assumed.                         *)
(*                                                                         *)
(* The module `database` (db, create_document, get_documents) is imported  *)
(* by main.py but is not among the source files; its three names are       *)
(* modelled from the specification's Document Gateway contract.            *)
(***************************************************************************)
EXTENDS Integers, Sequences, FiniteSets, TLC

VARIABLES
    db,        \* TRUE: main.py's `db` is a live handle; FALSE: it is None
    store,     \* collection name -> sequence of documents, in insertion order
    nextId,    \* the next identifier the store generates (also the logical clock)
    pc,        \* per worker: "idle", or "insert" (a signup between query and insert)
    req,       \* per worker: the signup payload being handled, <<>> when idle
    resp,      \* the last request/response exchange completed
    returned   \* identifiers handed back to callers in success responses

vars == <<db, store, nextId, pc, req, resp, returned>>

----------------------------------------------------------------------------
(* Bounds of the model *)

NumWorkers == 2   \* signups that may be between their two store calls at once
MaxDocs == 1      \* documents inserted in a run of Spec
MaxUsers == 2     \* users signed up in a run of AuthSpec or SeqSpec
MaxCreates == 2   \* documents inserted in a run of CapSpec

Workers == 1..NumWorkers

----------------------------------------------------------------------------
(* Values *)

\* Python's None, for optional fields, absent query parameters and dict.get misses
None == "<None>"

\* Python truthiness of an Optional[str]: None and "" are falsy
Truthy(x) == x # None /\ x # ""

Drop(p, f) == [g \in DOMAIN p \ {f} |-> p[g]]

With(p, f, v) == [g \in DOMAIN p \cup {f} |-> IF g = f THEN v ELSE p[g]]

Take(s, n) == IF Len(s) <= n THEN s ELSE SubSeq(s, 1, n)

SeqRange(s) == {s[i] : i \in DOMAIN s}

----------------------------------------------------------------------------
(* schemas.py: the resource kinds and their pydantic models *)

ResourceKinds ==
    {"Patient", "Doctor", "Appointment", "Medicine", "Prescription", "LabTest",
     "Invoice", "Vital", "BedAssignment", "InventoryItem", "MedicalRecord"}

Kinds == ResourceKinds \cup {"User"}

\* The class identifiers, spelled out character by character
ClassName ==
  [User |-> <<"U","s","e","r">>,
   Patient |-> <<"P","a","t","i","e","n","t">>,
   Doctor |-> <<"D","o","c","t","o","r">>,
   Appointment |-> <<"A","p","p","o","i","n","t","m","e","n","t">>,
   Medicine |-> <<"M","e","d","i","c","i","n","e">>,
   Prescription |-> <<"P","r","e","s","c","r","i","p","t","i","o","n">>,
   LabTest |-> <<"L","a","b","T","e","s","t">>,
   Invoice |-> <<"I","n","v","o","i","c","e">>,
   Vital |-> <<"V","i","t","a","l">>,
   BedAssignment |-> <<"B","e","d","A","s","s","i","g","n","m","e","n","t">>,
   InventoryItem |-> <<"I","n","v","e","n","t","o","r","y","I","t","e","m">>,
   MedicalRecord |-> <<"M","e","d","i","c","a","l","R","e","c","o","r","d">>]

UpperToLower ==
  [A |-> "a", B |-> "b", C |-> "c", D |-> "d", E |-> "e", F |-> "f", G |-> "g",
   H |-> "h", I |-> "i", J |-> "j", K |-> "k", L |-> "l", M |-> "m", N |-> "n",
   O |-> "o", P |-> "p", Q |-> "q", R |-> "r", S |-> "s", T |-> "t", U |-> "u",
   V |-> "v", W |-> "w", X |-> "x", Y |-> "y", Z |-> "z"]

\* str.lower(), character by character
Lower(s) == [i \in DOMAIN s |-> IF s[i] \in DOMAIN UpperToLower THEN UpperToLower[s[i]] ELSE s[i]]

\* The docstring's convention: a model's collection is its lowercase class name
CollectionOf(k) == Lower(ClassName[k])

\* Fields declared without a default (pydantic: required)
Required ==
  [User |-> {"email", "password_hash", "full_name", "role"},
   Patient |-> {"first_name", "last_name", "gender"},
   Doctor |-> {"first_name", "last_name", "specialty"},
   Appointment |-> {"patient_id", "doctor_id", "date", "time_slot"},
   Medicine |-> {"name"},
   Prescription |-> {"patient_id", "doctor_id"},
   LabTest |-> {"patient_id", "doctor_id", "test_type"},
   Invoice |-> {"patient_id", "amount"},
   Vital |-> {"patient_id"},
   BedAssignment |-> {"patient_id", "ward", "bed_number"},
   InventoryItem |-> {"name"},
   MedicalRecord |-> {"patient_id"}]

\* Literal[...] fields and their declared values
EnumOf ==
  [User |-> [role |-> {"admin", "doctor", "nurse", "pharmacist", "lab", "patient"}],
   Patient |-> [gender |-> {"male", "female", "other"}],
   Doctor |-> <<>>,
   Appointment |-> [status |-> {"scheduled", "completed", "cancelled"}],
   Medicine |-> <<>>,
   Prescription |-> <<>>,
   LabTest |-> [status |-> {"requested", "in_progress", "completed"}],
   Invoice |-> <<>>,
   Vital |-> <<>>,
   BedAssignment |-> <<>>,
   InventoryItem |-> <<>>,
   MedicalRecord |-> <<>>]

\* Fields declared with a constant default
Defaults ==
  [User |-> [phone |-> None, is_active |-> TRUE, verified |-> FALSE],
   Patient |-> [user_id |-> None, dob |-> None, blood_group |-> None, address |-> None,
                city |-> None, country |-> "Ethiopia", emergency_contact |-> None,
                medical_history |-> <<>>, allergies |-> <<>>],
   Doctor |-> [user_id |-> None, bio |-> None, availability |-> <<>>],
   Appointment |-> [status |-> "scheduled", reason |-> None],
   Medicine |-> [sku |-> None, description |-> None, quantity |-> 0, price |-> "0.0",
                 expires_on |-> None],
   Prescription |-> [medicines |-> <<>>, notes |-> None],
   LabTest |-> [status |-> "requested", result_url |-> None],
   Invoice |-> [items |-> <<>>, paid |-> FALSE, method |-> None],
   Vital |-> [temperature_c |-> None, pulse_bpm |-> None, blood_pressure |-> None,
              respiration_rate |-> None, notes |-> None],
   BedAssignment |-> <<>>,
   InventoryItem |-> [category |-> None, quantity |-> 0, threshold |-> 5, location |-> None],
   MedicalRecord |-> [complaints |-> None, diagnosis |-> None, treatment |-> None,
                      documents |-> <<>>]]

\* Fields declared with default_factory=datetime.utcnow
NowFields ==
  [User |-> {}, Patient |-> {}, Doctor |-> {}, Appointment |-> {}, Medicine |-> {},
   Prescription |-> {}, LabTest |-> {}, Invoice |-> {}, Vital |-> {},
   BedAssignment |-> {"assigned_on"}, InventoryItem |-> {},
   MedicalRecord |-> {"visit_date"}]

Fields(k) == Required[k] \cup DOMAIN Defaults[k] \cup NowFields[k]

\* Validation as it would be if the Literal fields were plain strings
Validate_required_only(k, p) == Required[k] \subseteq DOMAIN p

\* pydantic's verdict on a request body: every required field present, every
\* Literal field that is present holding a declared value
Validate(k, p) ==
    /\ Required[k] \subseteq DOMAIN p
    /\ \A f \in DOMAIN EnumOf[k] \cap DOMAIN p : p[f] \in EnumOf[k][f]

\* The validated model as a dict: unknown keys dropped, defaults filled in
Canonical(k, p, now) ==
    [f \in Fields(k) |->
        IF f \in DOMAIN p THEN p[f]
        ELSE IF f \in NowFields[k] THEN now
        ELSE Defaults[k][f]]

\* EmailStr: one "@", something before it, and a dotted domain after it
EmailStr(e) ==
    \E i \in DOMAIN e :
        /\ e[i] = "@"
        /\ \A j \in DOMAIN e : e[j] = "@" => j = i
        /\ i > 1
        /\ \E j \in DOMAIN e : j > i + 1 /\ j < Len(e) /\ e[j] = "."

\* LoginRequest
ValidLogin(p) ==
    /\ {"email", "password"} \subseteq DOMAIN p
    /\ EmailStr(p.email)

\* SignupRequest: role is a plain str
ValidSignup(p) ==
    /\ {"email", "password", "full_name", "role"} \subseteq DOMAIN p
    /\ EmailStr(p.email)

----------------------------------------------------------------------------
(* The Document Gateway (module `database`, imported at main.py line 7) *)

\* A filter matches a document when every key/value pair of it is in the document
Matches(d, filter) ==
    \A f \in DOMAIN filter : f \in DOMAIN d.data /\ d.data[f] = filter[f]

\* list: up to `limit` matching documents, in insertion order (a collection that
\* was never written to is empty); an unavailable store is an error (ok = FALSE),
\* not an empty result
get_documents(collection, filter, limit) ==
    LET Hit(d) == Matches(d, filter)
    IN  [ok    |-> db,
         items |-> IF db /\ collection \in DOMAIN store
                   THEN Take(SelectSeq(store[collection], Hit), limit)
                   ELSE <<>>]

\* insert: one document, with a store-generated identifier and creation/update
\* timestamps unless the caller set them; an unavailable store is an error and
\* nothing is written.  `kind` records which endpoint's resource the document is.
create_document(collection, kind, data) ==
    LET stamps == [f \in {"created_at", "updated_at"} \ DOMAIN data |-> nextId]
        doc    == [id |-> nextId, kind |-> kind, data |-> data @@ stamps]
    IN  [ok    |-> db,
         id    |-> IF db THEN nextId ELSE 0,
         store |-> IF ~db THEN store
                   ELSE IF collection \in DOMAIN store
                   THEN [store EXCEPT ![collection] = Append(@, doc)]
                   ELSE (collection :> <<doc>>) @@ store]

----------------------------------------------------------------------------
(* main.py: the handlers *)

NoUser == [email |-> <<>>, full_name |-> None]

Exchange(op, kind, coll, arg, status, id, items, role, user) ==
    [op |-> op, kind |-> kind, coll |-> coll, arg |-> arg, status |-> status,
     id |-> id, items |-> items, role |-> role, user |-> user]

\* A create handler as it would be if it caught the gateway's exception and
\* answered as usual
Create_swallowing(kind, coll, payload) ==
    /\ IF ~Validate(kind, payload)
       THEN /\ resp' = Exchange("create", kind, coll, payload, 422, 0, <<>>, None, NoUser)
            /\ UNCHANGED <<store, nextId, returned>>
       ELSE LET r == create_document(coll, kind, Canonical(kind, payload, nextId))
            IN  /\ store' = r.store
                /\ nextId' = IF r.ok THEN nextId + 1 ELSE nextId
                /\ returned' = IF r.ok THEN returned \cup {r.id} ELSE returned
                /\ resp' = Exchange("create", kind, coll, payload, 200, r.id, <<>>, None, NoUser)
    /\ UNCHANGED <<db, pc, req>>

\* POST on a resource path: FastAPI validates the body against the model (422),
\* then the handler inserts and returns the identifier; an exception raised by
\* the gateway leaves the handler and is answered 500
Create(kind, coll, payload) ==
    /\ IF ~Validate(kind, payload)
       THEN /\ resp' = Exchange("create", kind, coll, payload, 422, 0, <<>>, None, NoUser)
            /\ UNCHANGED <<store, nextId, returned>>
       ELSE LET r == create_document(coll, kind, Canonical(kind, payload, nextId))
            IN  IF ~r.ok
                THEN /\ resp' = Exchange("create", kind, coll, payload, 500, 0, <<>>, None, NoUser)
                     /\ UNCHANGED <<store, nextId, returned>>
                ELSE /\ store' = r.store
                     /\ nextId' = nextId + 1
                     /\ returned' = returned \cup {r.id}
                     /\ resp' = Exchange("create", kind, coll, payload, 200, r.id, <<>>, None, NoUser)
    /\ UNCHANGED <<db, pc, req>>

\* The limit= argument of each list endpoint's query
Limit ==
  [Patient |-> 100, Doctor |-> 100, Appointment |-> 100, Medicine |-> 200,
   Prescription |-> 100, LabTest |-> 100, Invoice |-> 100, Vital |-> 200,
   BedAssignment |-> 200, InventoryItem |-> 200, MedicalRecord |-> 200]

\* GET on a resource path: one filtered, capped query, answered with its result
List(kind, coll, arg, filter, limit) ==
    /\ LET r == get_documents(coll, filter, limit)
       IN  resp' = Exchange("list", kind, coll, arg, IF r.ok THEN 200 ELSE 500,
                            0, r.items, None, NoUser)
    /\ UNCHANGED <<db, store, nextId, pc, req, returned>>

\* login as it would be if it compared the password with the stored one
login_password_checked(payload) ==
    /\ IF ~ValidLogin(payload)
       THEN resp' = Exchange("login", "User", <<"u","s","e","r">>, payload, 422, 0, <<>>, None, NoUser)
       ELSE LET users == IF db THEN get_documents(<<"u","s","e","r">>, [email |-> payload.email], 1).items
                         ELSE <<>>
            IN  IF users = <<>> \/ users[1].data.password_hash # payload.password
                THEN resp' = Exchange("login", "User", <<"u","s","e","r">>, payload, 401, 0, <<>>, None, NoUser)
                ELSE resp' = Exchange("login", "User", <<"u","s","e","r">>, payload, 200, 0, <<>>,
                                      users[1].data.role,
                                      [email |-> users[1].data.email,
                                       full_name |-> users[1].data.full_name])
    /\ UNCHANGED <<db, store, nextId, pc, req, returned>>

\* signup as it would be without the existence query
signup_unchecked(w, payload) ==
    /\ pc[w] = "idle"
    /\ IF ~ValidSignup(payload)
       THEN /\ resp' = Exchange("signup", "User", <<"u","s","e","r">>, payload, 422, 0, <<>>, None, NoUser)
            /\ UNCHANGED <<pc, req>>
       ELSE IF ~db
       THEN /\ resp' = Exchange("signup", "User", <<"u","s","e","r">>, payload, 500, 0, <<>>, None, NoUser)
            /\ UNCHANGED <<pc, req>>
       ELSE /\ pc' = [pc EXCEPT ![w] = "insert"]
            /\ req' = [req EXCEPT ![w] = payload]
            /\ UNCHANGED resp
    /\ UNCHANGED <<db, store, nextId, returned>>

\* The insert half of signup as it would be if the store refused a second
\* document with the same e-mail (a unique index)
signup_insert_unique(w) ==
    /\ pc[w] = "insert"
    /\ LET payload == req[w]
           doc == [email |-> payload.email, password_hash |-> payload.password,
                   full_name |-> payload.full_name, role |-> payload.role,
                   is_active |-> TRUE, verified |-> FALSE,
                   created_at |-> nextId, updated_at |-> nextId]
           r == create_document(<<"u","s","e","r">>, "User", doc)
       IN  IF get_documents(<<"u","s","e","r">>, [email |-> payload.email], 1).items # <<>>
           THEN /\ resp' = Exchange("signup", "User", <<"u","s","e","r">>, payload, 400, 0, <<>>, None, NoUser)
                /\ UNCHANGED <<store, nextId, returned>>
           ELSE /\ store' = r.store
                /\ nextId' = nextId + 1
                /\ returned' = returned \cup {r.id}
                /\ resp' = Exchange("signup", "User", <<"u","s","e","r">>, payload, 200, r.id, <<>>, None, NoUser)
    /\ pc' = [pc EXCEPT ![w] = "idle"]
    /\ req' = [req EXCEPT ![w] = <<>>]
    /\ UNCHANGED db

\* POST /auth/login: the user is looked up by e-mail alone; without a store the
\* lookup is skipped and the result is the empty list
login(payload) ==
    /\ IF ~ValidLogin(payload)
       THEN resp' = Exchange("login", "User", <<"u","s","e","r">>, payload, 422, 0, <<>>, None, NoUser)
       ELSE LET users == IF db THEN get_documents(<<"u","s","e","r">>, [email |-> payload.email], 1).items
                         ELSE <<>>
            IN  IF users = <<>>
                THEN resp' = Exchange("login", "User", <<"u","s","e","r">>, payload, 401, 0, <<>>, None, NoUser)
                ELSE LET user == users[1].data
                         Get(f) == IF f \in DOMAIN user THEN user[f] ELSE None
                     IN  resp' = Exchange("login", "User", <<"u","s","e","r">>, payload, 200, 0, <<>>,
                                          Get("role"),
                                          [email |-> Get("email"), full_name |-> Get("full_name")])
    /\ UNCHANGED <<db, store, nextId, pc, req, returned>>

\* POST /auth/signup, up to the existence query: 500 without a store, 400 when a
\* user with the e-mail is found; otherwise the request goes on to its insert
signup(w, payload) ==
    /\ pc[w] = "idle"
    /\ IF ~ValidSignup(payload)
       THEN /\ resp' = Exchange("signup", "User", <<"u","s","e","r">>, payload, 422, 0, <<>>, None, NoUser)
            /\ UNCHANGED <<pc, req>>
       ELSE IF ~db
       THEN /\ resp' = Exchange("signup", "User", <<"u","s","e","r">>, payload, 500, 0, <<>>, None, NoUser)
            /\ UNCHANGED <<pc, req>>
       ELSE LET exists == get_documents(<<"u","s","e","r">>, [email |-> payload.email], 1).items
            IN  IF exists # <<>>
                THEN /\ resp' = Exchange("signup", "User", <<"u","s","e","r">>, payload, 400, 0, <<>>, None, NoUser)
                     /\ UNCHANGED <<pc, req>>
                ELSE /\ pc' = [pc EXCEPT ![w] = "insert"]
                     /\ req' = [req EXCEPT ![w] = payload]
                     /\ UNCHANGED resp
    /\ UNCHANGED <<db, store, nextId, returned>>

\* POST /auth/signup, from building the document to the response
signup_insert(w) ==
    /\ pc[w] = "insert"
    /\ LET payload == req[w]
           doc == [email |-> payload.email,
                   password_hash |-> payload.password,
                   full_name |-> payload.full_name,
                   role |-> payload.role,
                   is_active |-> TRUE,
                   verified |-> FALSE,
                   created_at |-> nextId,
                   updated_at |-> nextId]
           r == create_document(<<"u","s","e","r">>, "User", doc)
       IN  IF ~r.ok
           THEN /\ resp' = Exchange("signup", "User", <<"u","s","e","r">>, payload, 500, 0, <<>>, None, NoUser)
                /\ UNCHANGED <<store, nextId, returned>>
           ELSE /\ store' = r.store
                /\ nextId' = nextId + 1
                /\ returned' = returned \cup {r.id}
                /\ resp' = Exchange("signup", "User", <<"u","s","e","r">>, payload, 200, r.id, <<>>, None, NoUser)
    /\ pc' = [pc EXCEPT ![w] = "idle"]
    /\ req' = [req EXCEPT ![w] = <<>>]
    /\ UNCHANGED db

create_patient(payload) == Create("Patient", <<"p","a","t","i","e","n","t">>, payload)

\* GET /patients as it would be with a cap one lower
list_patients_short ==
    List("Patient", <<"p","a","t","i","e","n","t">>, None, <<>>, Limit.Patient - 1)

list_patients == List("Patient", <<"p","a","t","i","e","n","t">>, None, <<>>, Limit.Patient)

create_doctor(payload) == Create("Doctor", <<"d","o","c","t","o","r">>, payload)

list_doctors == List("Doctor", <<"d","o","c","t","o","r">>, None, <<>>, Limit.Doctor)

create_appointment(payload) == Create("Appointment", <<"a","p","p","o","i","n","t","m","e","n","t">>, payload)

list_appointments == List("Appointment", <<"a","p","p","o","i","n","t","m","e","n","t">>, None, <<>>, Limit.Appointment)

add_medicine(payload) == Create("Medicine", <<"m","e","d","i","c","i","n","e">>, payload)

list_medicines == List("Medicine", <<"m","e","d","i","c","i","n","e">>, None, <<>>, Limit.Medicine)

add_prescription(payload) == Create("Prescription", <<"p","r","e","s","c","r","i","p","t","i","o","n">>, payload)

list_prescriptions == List("Prescription", <<"p","r","e","s","c","r","i","p","t","i","o","n">>, None, <<>>, Limit.Prescription)

\* POST /lab/tests as it would be if it wrote to a snake-case collection
add_lab_test_snake(payload) == Create("LabTest", <<"l","a","b","_","t","e","s","t">>, payload)

add_lab_test(payload) == Create("LabTest", <<"l","a","b","t","e","s","t">>, payload)

list_lab_tests == List("LabTest", <<"l","a","b","t","e","s","t">>, None, <<>>, Limit.LabTest)

add_invoice(payload) == Create("Invoice", <<"i","n","v","o","i","c","e">>, payload)

list_invoices == List("Invoice", <<"i","n","v","o","i","c","e">>, None, <<>>, Limit.Invoice)

add_vital(payload) == Create("Vital", <<"v","i","t","a","l">>, payload)

list_vitals == List("Vital", <<"v","i","t","a","l">>, None, <<>>, Limit.Vital)

add_bed_assignment(payload) == Create("BedAssignment", <<"b","e","d","a","s","s","i","g","n","m","e","n","t">>, payload)

list_bed_assignments == List("BedAssignment", <<"b","e","d","a","s","s","i","g","n","m","e","n","t">>, None, <<>>, Limit.BedAssignment)

add_inventory_item(payload) == Create("InventoryItem", <<"i","n","v","e","n","t","o","r","y","i","t","e","m">>, payload)

list_inventory_items == List("InventoryItem", <<"i","n","v","e","n","t","o","r","y","i","t","e","m">>, None, <<>>, Limit.InventoryItem)

add_medical_record(payload) == Create("MedicalRecord", <<"m","e","d","i","c","a","l","r","e","c","o","r","d">>, payload)

\* GET /ehr/records: the optional patient_id narrows the query when it is truthy
list_medical_records(patient_id) ==
    LET filt == IF Truthy(patient_id) THEN [patient_id |-> patient_id] ELSE <<>>
    IN  List("MedicalRecord", <<"m","e","d","i","c","a","l","r","e","c","o","r","d">>, patient_id, filt, Limit.MedicalRecord)

----------------------------------------------------------------------------
(* The requests the model sends *)

EmailInputs == {<<"a","@","x",".","i","o">>, <<"b","@","x",".","i","o">>, <<"a","x",".","i","o">>}

\* one declared role and one that User's Literal does not declare
RoleInputs == {"doctor", "root"}

SignupSample == [email |-> <<"a","@","x",".","i","o">>, password |-> "pw", full_name |-> "Abebe", role |-> "doctor"]

SignupInputs ==
    {[SignupSample EXCEPT !.email = e, !.role = r] : e \in EmailInputs, r \in RoleInputs}
    \cup {Drop(SignupSample, "full_name")}

LoginInputs == {[email |-> e, password |-> pw] : e \in EmailInputs, pw \in {"pw", "wrong"}}

\* absent, empty, two patients with records and one without
PatientIdInputs == {None, "", "p1", "p2", "p3"}

\* One valid body per resource kind, with only its required fields
Sample ==
  [Patient |-> [first_name |-> "Abebe", last_name |-> "Kebede", gender |-> "male"],
   Doctor |-> [first_name |-> "Sara", last_name |-> "Tesfaye", specialty |-> "cardiology"],
   Appointment |-> [patient_id |-> "p1", doctor_id |-> "d1", date |-> "2024-01-01",
                    time_slot |-> "10:30-11:00"],
   Medicine |-> [name |-> "Paracetamol"],
   Prescription |-> [patient_id |-> "p1", doctor_id |-> "d1"],
   LabTest |-> [patient_id |-> "p1", doctor_id |-> "d1", test_type |-> "cbc"],
   Invoice |-> [patient_id |-> "p1", amount |-> "250.0"],
   Vital |-> [patient_id |-> "p1"],
   BedAssignment |-> [patient_id |-> "p1", ward |-> "A", bed_number |-> "7"],
   InventoryItem |-> [name |-> "Gloves"],
   MedicalRecord |-> [patient_id |-> "p1"]]

\* For each Literal field: a declared value other than the sample's or the
\* default, and a value the Literal does not declare
EnumInputs ==
  [Patient |-> [gender |-> {"female", "unknown"}],
   Doctor |-> <<>>,
   Appointment |-> [status |-> {"completed", "pending"}],
   Medicine |-> <<>>,
   Prescription |-> <<>>,
   LabTest |-> [status |-> {"in_progress", "done"}],
   Invoice |-> <<>>,
   Vital |-> <<>>,
   BedAssignment |-> <<>>,
   InventoryItem |-> <<>>,
   MedicalRecord |-> <<>>]

\* The sample, the sample without one of its required fields, the sample with
\* each enum input, and a medical record of a second patient
PayloadInputs(k) ==
    {Sample[k]}
    \cup {Drop(Sample[k], f) : f \in Required[k]}
    \cup UNION {{With(Sample[k], f, v) : v \in EnumInputs[k][f]} : f \in DOMAIN EnumInputs[k]}
    \cup (IF k = "MedicalRecord" THEN {With(Sample[k], "patient_id", "p2")} ELSE {})

----------------------------------------------------------------------------
(* Specifications *)

NoExchange == Exchange("none", "none", <<>>, <<>>, 0, 0, <<>>, None, NoUser)

\* The process starts with `db` fixed by the import (a handle or None), an empty
\* store and every worker idle
Init ==
    /\ db \in BOOLEAN
    /\ store = <<>>
    /\ nextId = 1
    /\ pc = [w \in Workers |-> "idle"]
    /\ req = [w \in Workers |-> <<>>]
    /\ resp = NoExchange
    /\ returned = {}

\* Requests still between their existence query and their insert
InFlight == {w \in Workers : pc[w] = "insert"}

\* The bound of a specification: a request that may insert is taken up only if,
\* after the step, the documents inserted and the inserts still under way
\* number at most n
Within(n) == (nextId' - 1) + Cardinality(InFlight') <= n

Login == \E p \in LoginInputs : login(p)

Signup(n) == \E w \in Workers, p \in SignupInputs : signup(w, p) /\ Within(n)

SignupInsert == \E w \in Workers : signup_insert(w)

Resources(n) ==
    \/ \E p \in PayloadInputs("Patient") : create_patient(p) /\ Within(n)
    \/ list_patients
    \/ \E p \in PayloadInputs("Doctor") : create_doctor(p) /\ Within(n)
    \/ list_doctors
    \/ \E p \in PayloadInputs("Appointment") : create_appointment(p) /\ Within(n)
    \/ list_appointments
    \/ \E p \in PayloadInputs("Medicine") : add_medicine(p) /\ Within(n)
    \/ list_medicines
    \/ \E p \in PayloadInputs("Prescription") : add_prescription(p) /\ Within(n)
    \/ list_prescriptions
    \/ \E p \in PayloadInputs("LabTest") : add_lab_test(p) /\ Within(n)
    \/ list_lab_tests
    \/ \E p \in PayloadInputs("Invoice") : add_invoice(p) /\ Within(n)
    \/ list_invoices
    \/ \E p \in PayloadInputs("Vital") : add_vital(p) /\ Within(n)
    \/ list_vitals
    \/ \E p \in PayloadInputs("BedAssignment") : add_bed_assignment(p) /\ Within(n)
    \/ list_bed_assignments
    \/ \E p \in PayloadInputs("InventoryItem") : add_inventory_item(p) /\ Within(n)
    \/ list_inventory_items
    \/ \E p \in PayloadInputs("MedicalRecord") : add_medical_record(p) /\ Within(n)
    \/ \E x \in PatientIdInputs : list_medical_records(x)

\* Requests are served concurrently: a signup between its two store calls may
\* be overtaken by any other request, another signup included.  A handler that
\* makes a single store call is one step and occupies no worker.
Next == Login \/ Signup(MaxDocs) \/ SignupInsert \/ Resources(MaxDocs)

Spec == Init /\ [][Next]_vars

\* The auth endpoints alone, served concurrently
AuthNext == Login \/ Signup(MaxUsers) \/ SignupInsert

AuthSpec == Init /\ [][AuthNext]_vars

\* The auth endpoints with requests served one at a time: a request is taken up
\* only when no other request is under way
SeqNext ==
    \/ InFlight = {} /\ Login
    \/ InFlight = {} /\ Signup(MaxUsers)
    \/ SignupInsert

SeqSpec == Init /\ [][SeqNext]_vars

\* A store that already holds n documents of one kind, as left by n earlier
\* valid POSTs of the kind's sample body; their identifiers, generated before
\* this run, are the n integers ending at `last` (all below 1)
Prefill(kind, n, last) ==
    [i \in 1..n |->
        LET id == last - n + i
        IN  [id |-> id, kind |-> kind,
             data |-> Canonical(kind, Sample[kind], id)
                      @@ [f \in {"created_at", "updated_at"} |-> id]]]

\* The patient and medicine endpoints over a store that starts empty, one
\* document short of the list cap, or at the cap
CapInit ==
    /\ db = TRUE
    /\ \E np \in {0, Limit.Patient - 1, Limit.Patient},
          nm \in {0, Limit.Medicine - 1, Limit.Medicine} :
          store = [c \in (IF np > 0 THEN {<<"p","a","t","i","e","n","t">>} ELSE {})
                         \cup (IF nm > 0 THEN {<<"m","e","d","i","c","i","n","e">>} ELSE {}) |->
                      IF c = <<"p","a","t","i","e","n","t">>
                      THEN Prefill("Patient", np, 0)
                      ELSE Prefill("Medicine", nm, 0 - Limit.Patient)]
    /\ nextId = 1
    /\ pc = [w \in Workers |-> "idle"]
    /\ req = [w \in Workers |-> <<>>]
    /\ resp = NoExchange
    /\ returned = {}

CapNext ==
    \/ \E p \in PayloadInputs("Patient") : create_patient(p) /\ Within(MaxCreates)
    \/ list_patients
    \/ \E p \in PayloadInputs("Medicine") : add_medicine(p) /\ Within(MaxCreates)
    \/ list_medicines

CapSpec == CapInit /\ [][CapNext]_vars

----------------------------------------------------------------------------
(* Properties *)

\* The documents of a collection in store st
Docs(st, c) == IF c \in DOMAIN st THEN st[c] ELSE <<>>

AllDocs(st) == UNION {SeqRange(st[c]) : c \in DOMAIN st}

\* The user documents of store st that hold e-mail e
UsersWith(st, e) == {d \in SeqRange(Docs(st, <<"u","s","e","r">>)) : d.data.email = e}

\* An exchange was completed by this step
Answered == resp' # resp

\* C1 (sequential requests, store available): a signup whose e-mail no stored
\* user has goes on to insert exactly one user document and is answered 200 with
\* the new identifier; a signup whose e-mail a stored user has is answered 400
\* and inserts nothing; so no e-mail is ever held by two user documents.
C1_SignupRoundTrip ==
    /\ [](\A e \in EmailInputs : Cardinality(UsersWith(store, e)) <= 1)
    /\ [][\A w \in Workers :
            /\ \A p \in SignupInputs :
                 (db /\ ValidSignup(p) /\ signup(w, p)) =>
                    IF UsersWith(store, p.email) = {}
                    THEN pc'[w] = "insert" /\ req'[w] = p
                    ELSE /\ Answered
                         /\ resp'.op = "signup" /\ resp'.status = 400 /\ resp'.arg = p
                         /\ store' = store /\ returned' = returned
            /\ (pc[w] = "insert" /\ pc'[w] = "idle") =>
                    /\ UsersWith(store, req[w].email) = {}
                    /\ Cardinality(UsersWith(store', req[w].email)) = 1
                    /\ Len(Docs(store', <<"u","s","e","r">>)) = Len(Docs(store, <<"u","s","e","r">>)) + 1
                    /\ resp'.op = "signup" /\ resp'.status = 200 /\ resp'.arg = req[w]
                    /\ resp'.id \in returned' \ returned
                    /\ \E d \in UsersWith(store', req[w].email) : d.id = resp'.id]_vars

\* C1 witness: a second signup with a stored user's e-mail has just been refused
C1_Witness ==
    /\ db
    /\ resp.op = "signup" /\ resp.status = 400
    /\ Cardinality(UsersWith(store, resp.arg.email)) = 1
    /\ \E d \in UsersWith(store, resp.arg.email) : d.id \in returned

\* C2 (concurrent requests): the insert half of a signup does not look at the
\* store again: whatever other requests did since its existence query, it adds
\* one user document with its e-mail and is answered 200 with that document's
\* identifier.
C2_InsertAfterQueryIsBlind ==
    [][\A w \in Workers :
          (pc[w] = "insert" /\ pc'[w] = "idle") =>
             /\ Cardinality(UsersWith(store', req[w].email))
                  = Cardinality(UsersWith(store, req[w].email)) + 1
             /\ resp'.op = "signup" /\ resp'.status = 200
             /\ resp'.id \in returned' \ returned
             /\ \E d \in UsersWith(store', req[w].email) : d.id = resp'.id]_vars

\* C2 witness: two user documents hold the same e-mail and both identifiers
\* were returned in success responses
C2_Witness ==
    \E e \in EmailInputs :
        \E d1, d2 \in UsersWith(store, e) :
            d1.id # d2.id /\ d1.id \in returned /\ d2.id \in returned

\* The resource kind whose collection c is, by the lowercase convention
KindOfCollection(c) == CHOOSE k \in Kinds : CollectionOf(k) = c

\* C3 (the claim as stated): every stored document satisfies the schema of its
\* resource kind: required fields present, Literal fields holding declared values.
C3_StoredDocumentsSatisfySchema ==
    \A c \in DOMAIN store :
        \A d \in SeqRange(store[c]) : Validate(KindOfCollection(c), d.data)

\* C5: a login whose body is a LoginRequest is answered 401 with no user object
\* when no stored user has the e-mail, and 200 with the role, e-mail and full
\* name of a stored user with that e-mail otherwise, whatever the password; the
\* store is left as it was.
C5_LoginByEmailOnly ==
    [][(Answered /\ resp'.op = "login" /\ ValidLogin(resp'.arg)) =>
          LET e == resp'.arg.email
          IN  /\ store' = store /\ nextId' = nextId /\ returned' = returned
              /\ IF UsersWith(store, e) = {}
                 THEN resp'.status = 401 /\ resp'.user = NoUser /\ resp'.role = None
                 ELSE /\ resp'.status = 200
                      /\ \E d \in UsersWith(store, e) :
                            /\ resp'.role = d.data.role
                            /\ resp'.user = [email |-> d.data.email,
                                             full_name |-> d.data.full_name]]_vars

\* C5 witness: a login was accepted with a password other than the stored one
C5_Witness ==
    /\ resp.op = "login" /\ resp.status = 200
    /\ \A d \in UsersWith(store, resp.arg.email) : d.data.password_hash # resp.arg.password

\* The stored documents that POSTs on kind k's path inserted
OfKind(st, k) == {d \in AllDocs(st) : d.kind = k}

\* The valid request bodies of kind k
ValidBodies(k) == {p \in PayloadInputs(k) : Validate(k, p)}

\* The last exchange is an unfiltered GET on a resource path, answered 200
UnfilteredList ==
    resp.op = "list" /\ resp.status = 200 /\ ~Truthy(resp.arg)

\* Every valid body P, a successful POST of which is in the store, is matched
\* by a record of the list just returned
ListShowsEveryCreated ==
    \A P \in ValidBodies(resp.kind) :
        (\E d \in OfKind(store, resp.kind) : d.id \in returned /\ Matches(d, P))
            => \E i \in DOMAIN resp.items : Matches(resp.items[i], P)

\* C4 (the claim as stated): after a successful POST of P, every unfiltered GET
\* on the same path returns a record matching P, however many records the kind has.
C4_ListShowsEveryCreatedAlways == UnfilteredList => ListShowsEveryCreated

\* C4 (amended): after a successful POST of P, an unfiltered GET on the same path
\* returns a record matching P whenever the kind holds no more records than the
\* endpoint's cap.
C4_ListShowsEveryCreatedWithinCap ==
    (UnfilteredList /\ Cardinality(OfKind(store, resp.kind)) <= Limit[resp.kind])
        => ListShowsEveryCreated

\* C4 witness: the patient list holds exactly the cap, and the list returned
\* includes a patient POSTed in this run
C4_Witness ==
    /\ UnfilteredList /\ resp.kind = "Patient"
    /\ Cardinality(OfKind(store, "Patient")) = Limit.Patient
    /\ \E i \in DOMAIN resp.items : resp.items[i].id \in returned

\* The last exchange is a write request: a signup or a resource create
IsWrite == resp.op \in {"signup", "create"}

\* The body of the last write request passed the framework's validation
WriteBodyValid ==
    IF resp.op = "signup" THEN ValidSignup(resp.arg) ELSE Validate(resp.kind, resp.arg)

\* C6 (the claim as stated): without a store, every write request is answered
\* with a server error.
C6_EveryWriteFailsAsServerError == (~db /\ IsWrite) => resp.status = 500

\* C6 (amended): without a store, every write request whose body passes
\* validation is answered 500 with no identifier (a body that fails validation
\* is answered 422 before the store is looked at), and nothing is ever stored
\* or returned.
C6_ValidWriteFailsAsServerError ==
    ~db =>
        /\ store = <<>> /\ returned = {}
        /\ IsWrite =>
              /\ resp.id = 0
              /\ resp.status = IF WriteBodyValid THEN 500 ELSE 422

\* C6 witness: a valid resource create was answered 500 without a store
C6_Witness ==
    ~db /\ resp.op = "create" /\ WriteBodyValid /\ resp.status = 500

\* C7 (the claim as stated): GET /ehr/records returns at most 200 records, and
\* with patient_id = X, whatever X is, only records whose patient_id is X.
C7_RecordsFilteredByPatientId ==
    (resp.op = "list" /\ resp.kind = "MedicalRecord" /\ resp.status = 200) =>
        /\ Len(resp.items) <= 200
        /\ resp.arg # None =>
              \A i \in DOMAIN resp.items : resp.items[i].data.patient_id = resp.arg

\* A body misses a required field of kind k
MissesRequired(k, p) == \E f \in Required[k] : f \notin DOMAIN p

\* A body carries a value its Literal field does not declare
UndeclaredEnum(k, p) ==
    \E f \in DOMAIN EnumOf[k] : f \in DOMAIN p /\ p[f] \notin EnumOf[k][f]

\* C8: a resource create whose body misses a required field or carries an
\* undeclared enum value is answered 422, and the step leaves the store, the
\* identifier counter and the returned identifiers as they were.
C8_InvalidCreateRejected ==
    [][(Answered /\ resp'.op = "create"
          /\ (MissesRequired(resp'.kind, resp'.arg) \/ UndeclaredEnum(resp'.kind, resp'.arg)))
        => /\ resp'.status = 422 /\ resp'.id = 0
           /\ store' = store /\ nextId' = nextId /\ returned' = returned]_vars

\* C8 witness: with the store available, an appointment with status "pending"
\* was refused
C8_Witness ==
    /\ db
    /\ resp.op = "create" /\ resp.kind = "Appointment" /\ resp.status = 422
    /\ "status" \in DOMAIN resp.arg /\ resp.arg.status = "pending"

\* What an endpoint answers when the store is available and holds no matching
\* record: login 401, a list 200 with no records
NoMatchAnswer ==
    \/ resp.op = "login" /\ resp.status = 401
    \/ resp.op = "list" /\ resp.status = 200 /\ resp.items = <<>>

\* C9 (the claim as stated): no request made without a store is answered as a
\* request that found no matching record is.
C9_UnavailableIsNotNoMatch == ~db => ~NoMatchAnswer

\* C10: every stored document lies in the collection named by the lowercase
\* class name of the kind whose endpoint wrote it, every exchange (list, login,
\* signup, create) used the collection so named for its kind, and a list
\* returns only documents that its own kind's create endpoint wrote.
C10_CollectionIsLowercaseKind ==
    /\ \A c \in DOMAIN store :
          \A d \in SeqRange(store[c]) : c = CollectionOf(d.kind)
    /\ resp.op # "none" => resp.coll = CollectionOf(resp.kind)
    /\ resp.op = "list" => \A i \in DOMAIN resp.items : resp.items[i].kind = resp.kind

\* C10 witness: a lab test was POSTed and GET /lab/tests returned it
C10_Witness ==
    /\ resp.op = "list" /\ resp.kind = "LabTest" /\ resp.items # <<>>
    /\ resp.coll = <<"l","a","b","t","e","s","t">>
    /\ \A i \in DOMAIN resp.items : resp.items[i].kind = "LabTest"

====
